---- MODULE Spec2Model ----
(***************************************************************************)
(* Model of scripts/create_meta_definitions.mjs (kept in src/readme.md,    *)
(* lines 94-341): the Shopify Admin GraphQL provisioning script of the     *)
(* QFlex theme.  One process (the script) talks to one remote Admin API.   *)
(* The remote API is either a mock that may answer anything, or a backend  *)
(* that persists definitions and reports duplicates as user errors.        *)
(***************************************************************************)
EXTENDS Integers, Sequences, FiniteSets, TLC

(* ---- bounds of the model ---- *)
MaxUserErrors == 2
MaxRuns == 2

(* ---- small helpers ---- *)
Range(s) == {s[i] : i \in 1..Len(s)}

SeqsUpTo(S, n) == UNION {[1..k -> S] : k \in 0..n}

(* ---- process.env (lines 112-116) ---- *)
EnvNames == <<"SHOPIFY_STORE", "SHOPIFY_ADMIN_ACCESS_TOKEN", "SHOPIFY_API_VERSION">>

\* a variable is undefined, the empty string, or a non-empty string
EnvValues == {"undefined", "", "value"}

\* JavaScript truthiness of an environment value: !x is true for undefined and ''
Truthy(v) == v \notin {"undefined", ""}

(* ---- the catalogs built in main() ---- *)
metaobjects ==
  << [name |-> "Badge", type |-> "badge",
      fieldDefinitions |-> <<"label", "icon", "color">>],
     [name |-> "Testimonial", type |-> "testimonial",
      fieldDefinitions |-> <<"name", "quote", "pain_area">>],
     [name |-> "Press logo", type |-> "press_logo",
      fieldDefinitions |-> <<"image", "url">>] >>

metafields ==
  << [name |-> "Hero eyebrow", namespace |-> "qf", key |-> "hero_eyebrow",
      type |-> "single_line_text_field", ownerType |-> "PRODUCT"],
     [name |-> "Review count", namespace |-> "qf", key |-> "review_count",
      type |-> "number_integer", ownerType |-> "PRODUCT"],
     [name |-> "Average rating", namespace |-> "qf", key |-> "avg_rating",
      type |-> "number_decimal", ownerType |-> "PRODUCT"],
     [name |-> "USP pills", namespace |-> "qf", key |-> "usp_pills",
      type |-> "list.single_line_text_field", ownerType |-> "PRODUCT"] >>

\* the two loops of main() in the other order
CatalogMetafieldsFirst ==
  [i \in 1..(Len(metaobjects) + Len(metafields)) |->
     IF i <= Len(metafields)
       THEN [mutation |-> "metafieldDefinitionCreate",
             definition |-> metafields[i]]
       ELSE [mutation |-> "metaobjectDefinitionCreate",
             definition |-> metaobjects[i - Len(metafields)]]]

\* the requests of one run, in the order the two loops of main() issue them:
\* createMetaobject(def) for each metaobject, then createMetafield(def)
Catalog ==
  [i \in 1..(Len(metaobjects) + Len(metafields)) |->
     IF i <= Len(metaobjects)
       THEN [mutation |-> "metaobjectDefinitionCreate",
             definition |-> metaobjects[i]]
       ELSE [mutation |-> "metafieldDefinitionCreate",
             definition |-> metafields[i - Len(metaobjects)]]]

NumSpecs == Len(Catalog)

(* ---- user error messages and the two duplicate patterns ---- *)
\* A message is a sequence of tokens; a token is a word or phrase of the text.
\* the i flag: matching is done on the lower-cased text
LowerCase(t) ==
  CASE t = "Type" -> "type"
    [] t = "Definition" -> "definition"
    [] t = "Name" -> "name"
    [] OTHER -> t

TypeExists == <<"Type", "already exists">>
DefinitionExists == <<"Definition", "already exists">>
LineBreak == <<"Type", "definition", "\n", "already exists">>
WrongOrder == <<"already exists", "type", "definition">>
Invalid == <<"Name", "is invalid">>

Messages == {TypeExists, DefinitionExists, LineBreak, WrongOrder, Invalid}

\* the pattern without the i flag
RegexTestCaseSensitive(word, message) ==
  \E i \in 1..Len(message) : \E j \in (i + 1)..Len(message) :
    /\ message[i] = word
    /\ message[j] = "already exists"
    /\ \A k \in (i + 1)..(j - 1) : message[k] # "\n"

\* /<word>.*already exists/i.test(message): the word, then any characters
\* except line terminators, then "already exists"
RegexTest(word, message) ==
  \E i \in 1..Len(message) : \E j \in (i + 1)..Len(message) :
    /\ LowerCase(message[i]) = word
    /\ LowerCase(message[j]) = "already exists"
    /\ \A k \in (i + 1)..(j - 1) : message[k] # "\n"

\* the filter of line 170 with its predicate inverted
metaobjectDupeErrors(userErrors) ==
  SelectSeq(userErrors, LAMBDA m : RegexTest("type", m))

\* line 170: (err) => !/type.*already exists/i.test(err.message)
metaobjectNonDupeErrors(userErrors) ==
  SelectSeq(userErrors, LAMBDA m : ~RegexTest("type", m))

\* the filter of line 203 with its predicate inverted
metafieldDupeErrors(userErrors) ==
  SelectSeq(userErrors, LAMBDA m : RegexTest("definition", m))

\* line 203: (err) => !/definition.*already exists/i.test(err.message)
metafieldNonDupeErrors(userErrors) ==
  SelectSeq(userErrors, LAMBDA m : ~RegexTest("definition", m))

(* ---- response bodies ---- *)
\* top-level errors: absent, an empty array or a non-empty array
ErrorsValues == {"undefined", "[]", "[error]"}

\* if (errors && errors.length)
ErrorsNonEmpty(errors) == errors = "[error]"

\* if (errors): every array is truthy, also the empty one
ErrorsTruthy(errors) == errors # "undefined"

\* userErrors of a mutation result: null, or a list of messages
NullUserErrors == [isNull |-> TRUE, list |-> <<>>]
UserErrorsValues ==
  {NullUserErrors} \cup
  {[isNull |-> FALSE, list |-> l] : l \in SeqsUpTo(Messages, MaxUserErrors)}

\* data: absent, holding a null mutation result, or holding a result object
NoData == [tag |-> "undefined"]
NullResult == [tag |-> "null result"]
DataValues ==
  {NoData, NullResult} \cup
  {[tag |-> "result", created |-> c, userErrors |-> u] :
     c \in BOOLEAN, u \in UserErrorsValues}

InvalidJson == [json |-> "invalid"]
Bodies ==
  {InvalidJson} \cup
  {[json |-> "object", errors |-> e, data |-> d] :
     e \in ErrorsValues, d \in DataValues}

\* the body that reports one duplicate for the mutation
DupeMessage(mutation) ==
  IF mutation = "metaobjectDefinitionCreate" THEN TypeExists ELSE DefinitionExists

DupeBody(mutation) ==
  [json |-> "object", errors |-> "undefined",
   data |-> [tag |-> "result", created |-> FALSE,
             userErrors |-> [isNull |-> FALSE,
                             list |-> <<DupeMessage(mutation)>>]]]

CreatedBody ==
  [json |-> "object", errors |-> "undefined",
   data |-> [tag |-> "result", created |-> TRUE,
             userErrors |-> [isNull |-> FALSE, list |-> <<>>]]]

(* ---- lines written to the console ---- *)
Line(text, detail) == [text |-> text, detail |-> detail]

Returned(outcome) == [thrown |-> FALSE, outcome |-> outcome, log |-> <<>>]
Thrown(log) == [thrown |-> TRUE, outcome |-> "failed", log |-> log]

(* ---- assertEnv (lines 118-127) ---- *)
\* the checks written as x === undefined
assertEnvUndefinedOnly(e) ==
  SelectSeq(EnvNames, LAMBDA n : e[n] = "undefined")

\* the names pushed to `missing`, in order
assertEnv(e) ==
  SelectSeq(EnvNames, LAMBDA n : ~Truthy(e[n]))

(* ---- shopifyGraphQL (lines 129-146) ---- *)
\* shopifyGraphQL without the status check
shopifyGraphQLNeverThrows(res) == FALSE

\* if (!res.ok) throw new Error(`GraphQL request failed: ...`)
shopifyGraphQLThrows(res) == ~res.ok

(* ---- createMetaobject after the await (lines 162-179) ---- *)
\* "created": returned with no user errors; "already-existed": returned
\* because every user error matched the pattern; otherwise an error is thrown
createMetaobject(body) ==
  IF ErrorsTruthy(body.errors)
    THEN Thrown(<<Line("Error: " \o body.errors, <<>>)>>)
  ELSE IF body.data.tag # "result"
    THEN Thrown(<<Line("TypeError", <<>>)>>)
  ELSE IF ~body.data.userErrors.isNull /\ Len(body.data.userErrors.list) > 0
    THEN LET nonDupeErrors == metaobjectNonDupeErrors(body.data.userErrors.list)
         IN IF Len(nonDupeErrors) > 0
              THEN Thrown(<<Line("Metaobject creation errors:", nonDupeErrors),
                            Line("Error: Metaobject creation failed", <<>>)>>)
              ELSE Returned("already-existed")
  ELSE Returned("created")

(* ---- createMetafield after the await (lines 196-212) ---- *)
createMetafield(body) ==
  IF ErrorsTruthy(body.errors)
    THEN Thrown(<<Line("Error: " \o body.errors, <<>>)>>)
  ELSE IF body.data.tag # "result"
    THEN Thrown(<<Line("TypeError", <<>>)>>)
  ELSE IF ~body.data.userErrors.isNull /\ Len(body.data.userErrors.list) > 0
    THEN LET nonDupeErrors == metafieldNonDupeErrors(body.data.userErrors.list)
         IN IF Len(nonDupeErrors) > 0
              THEN Thrown(<<Line("Metafield creation errors:", nonDupeErrors),
                            Line("Error: Metafield creation failed", <<>>)>>)
              ELSE Returned("already-existed")
  ELSE Returned("created")

\* the function whose await the body resumes
create(mutation, body) ==
  IF mutation = "metaobjectDefinitionCreate"
    THEN createMetaobject(body)
    ELSE createMetafield(body)

(* ---- the remote Admin API ---- *)
\* the identity under which the backend detects a duplicate: the type of a
\* metaobject definition; namespace, key and owner type of a metafield definition
DefId(req) ==
  IF req.mutation = "metaobjectDefinitionCreate"
    THEN <<"metaobject", req.definition.type>>
    ELSE <<"metafield", req.definition.namespace, req.definition.key,
           req.definition.ownerType>>

DefIds == {DefId(Catalog[i]) : i \in 1..NumSpecs}

SpecOf(id) == Catalog[CHOOSE i \in 1..NumSpecs : DefId(Catalog[i]) = id]

Absent == [absent |-> TRUE]

\* a definition with the same identity as the catalog's and other content
Legacy(def) == [def EXCEPT !.name = "Legacy"]

Idle == [tag |-> "idle"]
NoBody == [json |-> "none"]

VARIABLES
  env,        \* process.env: name -> value
  backend,    \* "mock": answers anything; "persistent": stores definitions
  store,      \* the backend's definitions: identity -> content or Absent
  creations,  \* how often the backend created each definition
  srvBody,    \* the body of the response the backend is sending
  run,        \* number of the current invocation of the script
  pc,         \* "ready", "fetching" (await fetch), "reading" (await res.json()), "exited"
  idx,        \* position in Catalog of the request being awaited
  requests,   \* the requests issued by this run, in order
  net,        \* what is in flight between the script and the API
  settled,    \* number of fetch promises of this run that settled
  bodyReads,  \* number of res.json() calls of this run
  received,   \* the body whose handling ended this run, NoBody before
  outcomes,   \* outcome of each create call of this run that returned
  exitCode,   \* -1 while running
  stdout,     \* lines logged with console.log
  stderr,     \* lines logged with console.error
  onlyDupes   \* every answer of this run so far was HTTP success with DupeBody

vars == <<env, backend, store, creations, srvBody, run, pc, idx, requests, net,
          settled, bodyReads, received, outcomes, exitCode, stdout, stderr,
          onlyDupes>>

serverVars == <<backend, store, creations, srvBody>>

Init ==
  /\ env \in [Range(EnvNames) -> EnvValues]
  /\ backend \in {"mock", "persistent"}
  /\ \E phase \in [DefIds -> {"absent", "catalog", "legacy"}] :
       store = [id \in DefIds |->
                  CASE phase[id] = "absent" -> Absent
                    [] phase[id] = "catalog" -> SpecOf(id).definition
                    [] OTHER -> Legacy(SpecOf(id).definition)]
  /\ backend = "mock" => store = [id \in DefIds |-> Absent]
  /\ creations = [id \in DefIds |-> 0]
  /\ srvBody = NoBody
  /\ run = 1
  /\ pc = "ready"
  /\ idx = 0
  /\ requests = <<>>
  /\ net = Idle
  /\ settled = 0
  /\ bodyReads = 0
  /\ received = NoBody
  /\ outcomes = <<>>
  /\ exitCode = -1
  /\ stdout = <<>>
  /\ stderr = <<>>
  /\ onlyDupes = TRUE

(* ---- steps of the script ---- *)
\* fetch(...) of shopifyGraphQL, called by the create function for Catalog[i]
Fetch(i) ==
  /\ idx' = i
  /\ requests' = Append(requests, Catalog[i])
  /\ net' = [tag |-> "request", mutation |-> Catalog[i].mutation,
             definition |-> Catalog[i].definition]
  /\ pc' = "fetching"

\* process.exit(code), or the end of the process
Exit(code) ==
  /\ pc' = "exited"
  /\ exitCode' = code
  /\ net' = Idle

\* main().catch((err) => console.error(err)): the process ends with code 0
CatchNoExit(lines) ==
  /\ stderr' = stderr \o lines
  /\ Exit(0)
  /\ UNCHANGED <<idx, requests, outcomes, stdout>>

\* an error reaches main().catch: console.error, process.exit(1)
Catch(lines) ==
  /\ stderr' = stderr \o lines
  /\ Exit(1)
  /\ UNCHANGED <<idx, requests, outcomes, stdout>>

\* main() up to its first await: assertEnv(), then createMetaobject(badge)
Main ==
  /\ pc = "ready"
  /\ LET missing == assertEnv(env) IN
       IF Len(missing) > 0
         THEN /\ stderr' = Append(stderr,
                      Line("Missing environment variables", <<missing>>))
              /\ Exit(1)
              /\ UNCHANGED <<idx, requests>>
         ELSE /\ Fetch(1)
              /\ UNCHANGED <<stderr, exitCode>>
  /\ UNCHANGED <<env, serverVars, run, settled, bodyReads, received, outcomes,
                 stdout, onlyDupes>>

\* shopifyGraphQL when fetch resolves: the status check, then res.json()
OnFetchResolved ==
  /\ pc = "fetching"
  /\ net.tag = "status"
  /\ settled' = settled + 1
  /\ IF shopifyGraphQLThrows(net)
       THEN /\ Catch(<<Line("Error: GraphQL request failed", <<>>)>>)
            /\ UNCHANGED bodyReads
       ELSE /\ pc' = "reading"
            /\ net' = [tag |-> "reading"]
            /\ bodyReads' = bodyReads + 1
            /\ UNCHANGED <<idx, requests, outcomes, exitCode, stdout, stderr>>
  /\ UNCHANGED <<env, serverVars, run, received, onlyDupes>>

\* fetch rejects (no response at all): the error reaches main().catch
OnFetchRejected ==
  /\ pc = "fetching"
  /\ net.tag = "rejected"
  /\ settled' = settled + 1
  /\ Catch(<<Line("FetchError", <<>>)>>)
  /\ UNCHANGED <<env, serverVars, run, bodyReads, received, onlyDupes>>

\* res.json() settles: the create function resumes, then the loops of main()
OnJsonSettled ==
  /\ pc = "reading"
  /\ net.tag = "body"
  /\ IF net.body = InvalidJson
       THEN Catch(<<Line("SyntaxError", <<>>)>>)
       ELSE LET r == create(Catalog[idx].mutation, net.body) IN
            IF r.thrown
              THEN Catch(r.log)
              ELSE /\ outcomes' = Append(outcomes, r.outcome)
                   /\ IF idx < NumSpecs
                        THEN /\ Fetch(idx + 1)
                             /\ UNCHANGED <<exitCode, stdout, stderr>>
                        ELSE /\ stdout' = Append(stdout,
                                    "Metaobject and metafield definitions ensured.")
                             /\ Exit(0)
                             /\ UNCHANGED <<idx, requests, stderr>>
  /\ received' = IF pc' = "exited" THEN net.body ELSE NoBody
  /\ UNCHANGED <<env, serverVars, run, settled, bodyReads, onlyDupes>>

\* npm run shopify:defs, once more
Relaunch ==
  /\ pc = "exited"
  /\ run < MaxRuns
  /\ run' = run + 1
  /\ pc' = "ready"
  /\ idx' = 0
  /\ requests' = <<>>
  /\ settled' = 0
  /\ bodyReads' = 0
  /\ received' = NoBody
  /\ outcomes' = <<>>
  /\ exitCode' = -1
  /\ stdout' = <<>>
  /\ stderr' = <<>>
  /\ onlyDupes' = TRUE
  /\ UNCHANGED <<env, serverVars, net>>

(* ---- steps of the remote API ---- *)
scriptVars == <<env, run, pc, idx, requests, settled, bodyReads, received,
                outcomes, exitCode, stdout, stderr>>

\* the mock answers a request: any status, or no response
MockRespond ==
  /\ backend = "mock"
  /\ net.tag = "request"
  /\ \/ \E ok \in BOOLEAN :
          /\ net' = [tag |-> "status", ok |-> ok]
          /\ onlyDupes' = (onlyDupes /\ ok)
     \/ /\ net' = [tag |-> "rejected"]
        /\ onlyDupes' = FALSE
  /\ UNCHANGED <<scriptVars, serverVars>>

\* the mock sends the body the script is reading: any body
MockBody ==
  /\ backend = "mock"
  /\ net.tag = "reading"
  /\ \E b \in Bodies :
       /\ net' = [tag |-> "body", body |-> b]
       /\ onlyDupes' = (onlyDupes /\ b = DupeBody(Catalog[idx].mutation))
  /\ UNCHANGED <<scriptVars, serverVars>>

\* the persistent backend performs a creation request
BackendRespond ==
  /\ backend = "persistent"
  /\ net.tag = "request"
  /\ LET id == DefId(net) IN
       IF store[id] = Absent
         THEN /\ store' = [store EXCEPT ![id] = net.definition]
              /\ creations' = [creations EXCEPT ![id] = @ + 1]
              /\ srvBody' = CreatedBody
              /\ onlyDupes' = FALSE
         ELSE /\ srvBody' = DupeBody(net.mutation)
              /\ UNCHANGED <<store, creations, onlyDupes>>
  /\ net' = [tag |-> "status", ok |-> TRUE]
  /\ UNCHANGED <<scriptVars, backend>>

\* the persistent backend sends the body of its response
BackendBody ==
  /\ backend = "persistent"
  /\ net.tag = "reading"
  /\ net' = [tag |-> "body", body |-> srvBody]
  /\ srvBody' = NoBody
  /\ UNCHANGED <<scriptVars, backend, store, creations, onlyDupes>>

Next ==
  \/ Main
  \/ OnFetchResolved
  \/ OnFetchRejected
  \/ OnJsonSettled
  \/ Relaunch
  \/ MockRespond
  \/ MockBody
  \/ BackendRespond
  \/ BackendBody

Spec == Init /\ [][Next]_vars

(***************************************************************************)
(* Properties                                                              *)
(***************************************************************************)
\* some required variable is missing or empty
EnvIncomplete ==
  \E n \in Range(EnvNames) : env[n] = "undefined" \/ env[n] = ""

IsPrefix(s, t) ==
  /\ Len(s) <= Len(t)
  /\ \A i \in 1..Len(s) : s[i] = t[i]

\* what a request is for: the type of a metaobject definition, namespace and
\* key of a metafield definition
RequestLabel(r) ==
  IF r.mutation = "metaobjectDefinitionCreate"
    THEN <<r.definition.type>>
    ELSE <<r.definition.namespace, r.definition.key>>

RequestLabels == [i \in 1..Len(requests) |-> RequestLabel(requests[i])]

ExpectedOrder ==
  << <<"badge">>, <<"testimonial">>, <<"press_logo">>,
     <<"qf", "hero_eyebrow">>, <<"qf", "review_count">>,
     <<"qf", "avg_rating">>, <<"qf", "usp_pills">> >>

Confirmation == <<"Metaobject and metafield definitions ensured.">>

\* the kind of the spec whose response is being awaited
AwaitedIsMetaobject == idx \in 1..3

\* a body with HTTP success content, no top-level errors and user errors
UserErrorsCase(b) ==
  /\ b.json = "object"
  /\ b.errors = "undefined"
  /\ b.data.tag = "result"
  /\ ~b.data.userErrors.isNull
  /\ Len(b.data.userErrors.list) > 0

\* the message of the model that reads "type ... already exists" (metaobject)
\* or "definition ... already exists" (metafield), in any letter case
ReportsDuplicate(isMetaobject, m) ==
  IF isMetaobject THEN m = TypeExists ELSE m = DefinitionExists

\* within a run, an exited process issues nothing more
ExitedStaysQuiet ==
  (pc = "exited" /\ run' = run) => UNCHANGED <<requests, net, exitCode>>

\* C1: when any non-empty subset of the three required environment
\* variables is missing or empty, the run issues no network request at all
\* and, once ended, has exit code 1.
C1_MissingEnvNoRequest ==
  EnvIncomplete =>
    /\ requests = <<>>
    /\ net = Idle
    /\ settled = 0
    /\ pc \in {"ready", "exited"}
    /\ pc = "exited" => exitCode = 1

C1_Witness ==
  /\ pc = "exited"
  /\ exitCode = 1
  /\ requests = <<>>
  /\ env["SHOPIFY_STORE"] = "value"
  /\ env["SHOPIFY_ADMIN_ACCESS_TOKEN"] = ""
  /\ env["SHOPIFY_API_VERSION"] = "undefined"
  /\ stderr = <<Line("Missing environment variables",
                     << <<"SHOPIFY_ADMIN_ACCESS_TOKEN", "SHOPIFY_API_VERSION">> >>)>>

\* C2: when every creation request of a run was answered with HTTP success,
\* no top-level errors and a userErrors list holding only the "already
\* exists" error of that definition, the ended run has attempted all seven
\* specs in order, has logged the confirmation and has exit code 0.
C2_AllDuplicatesSucceed ==
  (pc = "exited" /\ ~EnvIncomplete /\ onlyDupes) =>
    /\ RequestLabels = ExpectedOrder
    /\ stdout = Confirmation
    /\ stderr = <<>>
    /\ exitCode = 0

C2_Witness ==
  /\ backend = "mock"
  /\ pc = "exited"
  /\ onlyDupes
  /\ exitCode = 0
  /\ outcomes = [i \in 1..7 |-> "already-existed"]
  /\ received = DupeBody("metafieldDefinitionCreate")

\* C3: when the response for a metaobject spec carries a user error that is
\* not a duplicate report, the run ends there with a non-zero exit code and
\* no request is issued for any later spec.
C3_NonDuplicateAborts ==
  /\ [][(/\ pc = "reading"
         /\ net.tag = "body"
         /\ AwaitedIsMetaobject
         /\ UserErrorsCase(net.body)
         /\ \E m \in Range(net.body.data.userErrors.list) :
              ~ReportsDuplicate(TRUE, m))
        => (/\ pc' = "exited"
            /\ exitCode' # 0
            /\ exitCode' # -1
            /\ requests' = requests
            /\ net' = Idle
            /\ Len(requests') <= 3)]_vars
  /\ [][ExitedStaysQuiet]_vars

C3_Witness ==
  /\ pc = "exited"
  /\ exitCode = 1
  /\ RequestLabels = << <<"badge">>, <<"testimonial">> >>
  /\ UserErrorsCase(received)
  /\ received.data.userErrors.list = <<Invalid>>
  /\ outcomes = <<"created">>

\* C4: when a request receives a non-success HTTP status, the run aborts at
\* that request with a transport error and exit code 1; the body of that
\* response is never read, no outcome is recorded for it, and no later
\* request is issued.
C4_HttpFailureAborts ==
  /\ [][(pc = "fetching" /\ net.tag = "status" /\ ~net.ok)
        => (/\ pc' = "exited"
            /\ exitCode' = 1
            /\ bodyReads' = bodyReads
            /\ received' = received
            /\ outcomes' = outcomes
            /\ requests' = requests
            /\ net' = Idle
            /\ stderr' = Append(stderr, Line("Error: GraphQL request failed", <<>>))
            /\ stdout' = stdout)]_vars
  /\ [][ExitedStaysQuiet]_vars

C4_Witness ==
  /\ pc = "exited"
  /\ exitCode = 1
  /\ stderr = <<Line("Error: GraphQL request failed", <<>>)>>
  /\ Len(requests) = 5
  /\ settled = 5
  /\ bodyReads = 4
  /\ outcomes = [i \in 1..4 |-> "already-existed"]


\* C5: against the persistent backend, with the environment complete, the
\* first run leaves every definition stored, each created at most once; in
\* every later run the backend's state does not change, every creation
\* attempt resolves as already-existed, and the run ends with exit code 0.
C5_Idempotent ==
  /\ []((backend = "persistent" /\ ~EnvIncomplete) =>
          /\ \A id \in DefIds : creations[id] <= 1
          /\ \A id \in DefIds :
               creations[id] = 1 => store[id] = SpecOf(id).definition
          /\ pc = "exited" =>
               /\ exitCode = 0
               /\ \A id \in DefIds : store[id] # Absent
          /\ run >= 2 =>
               /\ \A id \in DefIds : store[id] # Absent
               /\ \A i \in 1..Len(outcomes) : outcomes[i] = "already-existed"
               /\ pc = "exited" => Len(outcomes) = 7)
  /\ [][(backend = "persistent" /\ ~EnvIncomplete /\ run >= 2)
        => UNCHANGED <<store, creations>>]_vars

C5_Witness ==
  /\ backend = "persistent"
  /\ run = 2
  /\ pc = "exited"
  /\ exitCode = 0
  /\ \A id \in DefIds : creations[id] = 1
  /\ outcomes = [i \in 1..7 |-> "already-existed"]

\* C6: an ended run has exit code 0 if and only if all seven specs ended as
\* created or already-existed, and exit code 1 otherwise; the confirmation
\* is logged exactly in the runs that end with exit code 0, and never
\* before the response to the last metafield request was handled.
C6_ExitCode ==
  /\ pc = "exited" =>
       /\ exitCode \in {0, 1}
       /\ exitCode = 0 <=>
            /\ Len(outcomes) = 7
            /\ \A i \in 1..7 : outcomes[i] \in {"created", "already-existed"}
       /\ stdout = Confirmation <=> exitCode = 0
  /\ pc # "exited" => exitCode = -1
  /\ stdout \in {<<>>, Confirmation}
  /\ stdout = Confirmation =>
       /\ pc = "exited"
       /\ settled = 7
       /\ bodyReads = 7
       /\ Len(requests) = 7

C6_Witness ==
  /\ backend = "mock"
  /\ pc = "exited"
  /\ exitCode = 1
  /\ stdout = <<>>
  /\ Len(outcomes) = 6
  /\ UserErrorsCase(received)
  /\ received.data.userErrors.list = <<DefinitionExists, Invalid>>

\* C7: after a run that ends with exit code 0 against the persistent
\* backend, every one of the seven definitions stored there has the content
\* of the script's catalog (created when absent, updated when it existed
\* with other content).
C7_CreatesOrUpdates ==
  (backend = "persistent" /\ pc = "exited" /\ exitCode = 0) =>
    \A id \in DefIds : store[id] = SpecOf(id).definition

\* C8: the requests of a run are a prefix of the fixed sequence badge,
\* testimonial, press_logo, qf.hero_eyebrow, qf.review_count, qf.avg_rating,
\* qf.usp_pills; at most one request is outstanding; a request is issued
\* only after every earlier one was accepted as success; no metafield
\* request precedes the success of the three metaobject requests.
C8_SequentialPrefix ==
  /\ IsPrefix(RequestLabels, ExpectedOrder)
  /\ Len(requests) - settled \in {0, 1}
  /\ Len(requests) <= Len(outcomes) + 1
  /\ (net.tag = "request") => Len(requests) = settled + 1
  /\ \A i \in 1..Len(requests) :
       requests[i].mutation = "metafieldDefinitionCreate" =>
         /\ i > 3
         /\ Len(outcomes) >= 3

C8_Witness ==
  /\ backend = "mock"
  /\ net.tag = "request"
  /\ net.mutation = "metafieldDefinitionCreate"
  /\ Len(requests) = 4
  /\ settled = 3
  /\ Len(outcomes) = 3

\* C9: a response whose userErrors list is non-empty counts as success
\* (already-existed) exactly when every entry reports a duplicate in the
\* wording of that operation's kind; if one entry does not, the spec fails
\* fatally with exit code 1, also when other entries do match and also when
\* the entry matches only the other kind's pattern.
C9_EveryEntryMustMatch ==
  [][(pc = "reading" /\ net.tag = "body" /\ UserErrorsCase(net.body))
     => IF \A m \in Range(net.body.data.userErrors.list) :
             ReportsDuplicate(AwaitedIsMetaobject, m)
          THEN /\ outcomes' = Append(outcomes, "already-existed")
               /\ stderr' = stderr
               /\ exitCode' # 1
          ELSE /\ outcomes' = outcomes
               /\ pc' = "exited"
               /\ exitCode' = 1]_vars

C9_Witness ==
  /\ pc = "exited"
  /\ exitCode = 1
  /\ idx = 1
  /\ UserErrorsCase(received)
  /\ received.data.userErrors.list = <<TypeExists, DefinitionExists>>
  /\ stderr = <<Line("Metaobject creation errors:", <<DefinitionExists>>),
                Line("Error: Metaobject creation failed", <<>>)>>

\* C10: when a body read after HTTP success carries a top-level errors
\* array, the spec fails and the run ends with exit code 1 without the
\* userErrors list being examined: no outcome is recorded whatever the data
\* payload holds, only the query error is logged, and no later request is
\* issued.
C10_QueryErrorAborts ==
  /\ [][(/\ pc = "reading"
         /\ net.tag = "body"
         /\ net.body.json = "object"
         /\ net.body.errors # "undefined")
        => (/\ pc' = "exited"
            /\ exitCode' = 1
            /\ outcomes' = outcomes
            /\ requests' = requests
            /\ net' = Idle
            /\ stdout' = stdout
            /\ \E e \in {"Error: []", "Error: [error]"} :
                 stderr' = Append(stderr, Line(e, <<>>)))]_vars
  /\ [][ExitedStaysQuiet]_vars

C10_Witness ==
  /\ pc = "exited"
  /\ exitCode = 1
  /\ Len(requests) = 1
  /\ received.json = "object"
  /\ received.errors = "[]"
  /\ received.data.tag = "result"
  /\ received.data.created
  /\ received.data.userErrors.list = <<TypeExists>>
  /\ outcomes = <<>>
  /\ stderr = <<Line("Error: []", <<>>)>>

====
